---- MODULE Spec2Model ----
(***************************************************************************)
(* Model of data_collector.py: the options data collection pipeline.       *)
(*                                                                         *)
(*   fetch_options_data      one ticker's option chains, stamped           *)
(*   process_and_clean_data  feature derivation, liquidity filter, dropna  *)
(*   __main__                fetch loop, "no data" exit, processing and    *)
(*                           the create-or-append write of OUTPUT_CSV      *)
(*                                                                         *)
(* Numbers are exact rationals with the IEEE special values the pandas     *)
(* columns can hold (NaN, +inf, -inf); float rounding is not modelled.     *)
(* A cell of a frame or of the CSV file is a record [k, s, n, d]:          *)
(*   k = "num": the rational n/d (d > 0, lowest terms)                     *)
(*   k = "nan": a missing value (NaN / None)                               *)
(*   k = "inf": n = 1 is +inf, n = -1 is -inf                              *)
(*   k = "str": the text s (a column name, an option type, or a            *)
(*              non-numeric cell of a malformed quote)                     *)
(***************************************************************************)
EXTENDS Integers, Sequences, FiniteSets, TLC

VARIABLES
    pc,               \* position of the script: idle, fetch, loaded, processed, done, error
    i,                \* index into TICKERS of the next ticker of the for loop
    all_ticker_data,  \* list of the non-empty frames fetched so far (line 107)
    raw_data_df,      \* the concatenated frame (line 118)
    model_ready_df,   \* the frame process_and_clean_data returned (line 121)
    file,             \* OUTPUT_CSV: [exists, lines]
    out,              \* what this run printed
    fetchLog,         \* history: the Fetcher calls of this run, [ticker, ret]
    lastFetch,        \* history: the quote-source traffic of the latest Fetcher call
    file0,            \* history: OUTPUT_CSV as it was when this run started
    writes,           \* history: number of to_csv calls of this run
    fresh,            \* history: OUTPUT_CSV did not exist before the first run
    persisted         \* history: the rows handed to to_csv so far, in order: the
                      \* record written and the bid and ask of the quote row it
                      \* was derived from, [line, bid, ask]

vars == <<pc, i, all_ticker_data, raw_data_df, model_ready_df, file, out,
          fetchLog, lastFetch, file0, writes, fresh, persisted>>

-----------------------------------------------------------------------------
(* Bounds of the exploration *)

\* Spec: rows the quote source hands out in one run plus data rows already in the file
MaxRows == 2
\* SpecProc: rows of the frame given to process_and_clean_data
MaxLen == 2

-----------------------------------------------------------------------------
(* Configuration, lines 8-16 *)

TICKERS == <<"AAPL", "MSFT", "NVDA", "TSLA", "GOOGL", "AMZN">>

HoursPerDay == 24
DaysPerYear == 365

-----------------------------------------------------------------------------
(* Cell values and float arithmetic *)

Abs(x) == IF x < 0 THEN -x ELSE x

RECURSIVE GCD(_, _)
GCD(a, b) == IF b = 0 THEN a ELSE GCD(b, a % b)

Sign(x) == IF x > 0 THEN 1 ELSE IF x < 0 THEN -1 ELSE 0

NaN == [k |-> "nan", s |-> "", n |-> 0, d |-> 1]
Inf(sg) == [k |-> "inf", s |-> "", n |-> sg, d |-> 1]
Str(t) == [k |-> "str", s |-> t, n |-> 0, d |-> 1]

\* the rational a/b, b # 0, in lowest terms with a positive denominator
Num(a, b) ==
    LET g == GCD(Abs(a), Abs(b))
        sg == IF b < 0 THEN -1 ELSE 1
    IN  [k |-> "num", s |-> "", n |-> sg * (a \div g), d |-> sg * (b \div g)]

\* 0.05, line 13
RISK_FREE_RATE == Num(1, 20)

IsNumeric(v) == v.k # "str"
isna(v) == v.k = "nan"

\* float addition
FAdd(a, b) ==
    IF a.k = "nan" \/ b.k = "nan" THEN NaN
    ELSE IF a.k = "inf" /\ b.k = "inf" THEN (IF a.n = b.n THEN a ELSE NaN)
    ELSE IF a.k = "inf" THEN a
    ELSE IF b.k = "inf" THEN b
    ELSE Num(a.n * b.d + b.n * a.d, a.d * b.d)

\* float division as numpy does it for a float64 column: a zero divisor raises
\* nothing, x / 0 is +inf or -inf and 0 / 0 is NaN
FDiv(a, b) ==
    IF a.k = "nan" \/ b.k = "nan" THEN NaN
    ELSE IF a.k = "inf" /\ b.k = "inf" THEN NaN
    ELSE IF a.k = "inf" THEN Inf(a.n * (IF b.n < 0 THEN -1 ELSE 1))
    ELSE IF b.k = "inf" THEN Num(0, 1)
    ELSE IF b.n = 0 THEN (IF a.n = 0 THEN NaN ELSE Inf(Sign(a.n)))
    ELSE Num(a.n * b.d, a.d * b.n)

\* v > 0 on a float column: False for NaN
GtZero(v) == (v.k = "num" /\ v.n > 0) \/ (v.k = "inf" /\ v.n > 0)

\* faulty variant: the day count cut towards zero instead of floored
TimedeltaDays_Truncate(hours) ==
    IF hours < 0 THEN -((-hours) \div HoursPerDay) ELSE hours \div HoursPerDay

\* Timedelta.days of a difference given in hours: the floor, so that
\* -36 hours is "-2 days +12:00:00"
TimedeltaDays(hours) == hours \div HoursPerDay

\* pd.to_datetime of an expiration date string: midnight of that day, in hours
to_datetime(day) == day * HoursPerDay

-----------------------------------------------------------------------------
(* Sequence helpers *)

SeqsUpTo(S, n) == UNION {[1..k -> S] : k \in 0..n}

RECURSIVE Concat(_)
Concat(frames) ==
    IF frames = <<>> THEN <<>> ELSE Head(frames) \o Concat(Tail(frames))

Position(t) == CHOOSE k \in 1..Len(TICKERS) : TICKERS[k] = t

-----------------------------------------------------------------------------
(* The quote source: what yfinance answers for one ticker.                 *)
(*   hasPrice  FALSE when history(period='1d') is empty, so that .iloc[0]  *)
(*             raises IndexError                                           *)
(*   price     the latest close                                            *)
(*   chains    one entry per date of stock.options, in order:              *)
(*             [exp, ts, calls, puts], ts being datetime.now() when the    *)
(*             chain was stamped; calls and puts are sequences of          *)
(*             contracts [strike, bid, ask, impliedVolatility]             *)
(***************************************************************************)

Contract(strike, bid, ask, iv) ==
    [strike |-> strike, bid |-> bid, ask |-> ask, impliedVolatility |-> iv]

\* strike 100, bid 1.00, ask 1.20, implied volatility 0.3
GoodContract == Contract(Num(100, 1), Num(1, 1), Num(6, 5), Num(3, 10))
\* bid 0, ask 1.50
ZeroBidContract == Contract(Num(100, 1), Num(0, 1), Num(3, 2), Num(3, 10))
\* a quote whose bid is text
MalformedContract == Contract(Num(100, 1), Str("-"), Num(6, 5), Num(3, 10))

\* a quote whose ask is missing
NaNAskContract == Contract(Num(100, 1), Num(1, 1), NaN, Num(3, 10))

\* no trading data: history() is empty; the ticker may list no option chains, or
\* still list some
NoPriceAnswer == [hasPrice |-> FALSE, price |-> NaN, chains |-> <<>>]
NoPriceListedAnswer ==
    [hasPrice |-> FALSE, price |-> NaN,
     chains |-> <<[exp |-> 40, ts |-> 252, calls |-> <<GoodContract>>, puts |-> <<>>]>>]

ChainRows(ch) == Len(ch.calls) + Len(ch.puts)

\* the chains of one expiration date with at most b rows
ChainsOf(exp, b, Cs, Ts) ==
    {ch \in [exp : {exp}, ts : Ts, calls : SeqsUpTo(Cs, b), puts : SeqsUpTo(Cs, b)] :
        ChainRows(ch) <= b}

\* the chain lists for the expiration dates exps with at most b rows in all
\* (the clock does not run backwards from one chain to the next)
RECURSIVE ChainsFor(_, _, _, _)
ChainsFor(exps, b, Cs, Ts) ==
    IF exps = <<>> THEN {<<>>}
    ELSE UNION {{<<ch>> \o rest :
                    rest \in ChainsFor(Tail(exps), b - ChainRows(ch), Cs,
                                       {t \in Ts : t >= ch.ts})} :
                    ch \in ChainsOf(Head(exps), b, Cs, Ts)}

AnswersOf(b, Ps, Es, Cs, Ts) ==
    {NoPriceAnswer, NoPriceListedAnswer} \cup
    UNION {[hasPrice : {TRUE}, price : Ps, chains : ChainsFor(exps, b, Cs, Ts)] : exps \in Es}

\* Spec: one expiration date (day 40) or none, stamped at noon of day 10; good
\* contracts in any arrangement, or a single zero-bid, missing-ask or malformed call
Answers(b) ==
    AnswersOf(b, {Num(105, 1)}, {<<>>, <<40>>}, {GoodContract}, {252})
    \cup {[hasPrice |-> TRUE, price |-> Num(105, 1),
           chains |-> <<[exp |-> 40, ts |-> 252, calls |-> <<c>>, puts |-> <<>>]>>] :
                c \in IF b > 0 THEN {ZeroBidContract, NaNAskContract, MalformedContract}
                      ELSE {}}

\* SpecProc: one ticker's answer with a missing, zero or positive close, an expired
\* date (day 9) alone or followed by a later one (day 40), chains stamped at midnight
\* or at noon of day 10, and contracts that differ from the good one in one cell
RichContracts ==
    {GoodContract, ZeroBidContract,
     Contract(Num(100, 1), NaN, Num(6, 5), Num(3, 10)),
     Contract(Num(100, 1), Num(1, 1), Num(0, 1), Num(3, 10)),
     NaNAskContract,
     Contract(Num(0, 1), Num(1, 1), Num(6, 5), Num(3, 10)),
     Contract(NaN, Num(1, 1), Num(6, 5), Num(3, 10)),
     Contract(Num(100, 1), Num(1, 1), Num(6, 5), NaN)}

RichAnswers(b) ==
    AnswersOf(b, {Num(105, 1), Num(0, 1), NaN}, {<<9>>, <<9, 40>>},
              RichContracts, {240, 252})

-----------------------------------------------------------------------------
(* fetch_options_data, lines 20-58 *)

Msg(m, t, c) == [msg |-> m, ticker |-> t, n |-> c]

\* lines 39-51: one row of the chain, labelled and stamped
QuoteRow(c, type, ch, ticker_symbol, current_stock_price) ==
    [ticker |-> ticker_symbol, optionType |-> Str(type),
     expirationDate |-> ch.exp, timestamp |-> ch.ts,
     underlyingPrice |-> current_stock_price,
     strike |-> c.strike, bid |-> c.bid, ask |-> c.ask,
     impliedVolatility |-> c.impliedVolatility]

\* lines 37-51: options_df, the calls followed by the puts
options_df(ch, ticker_symbol, current_stock_price) ==
    [j \in 1..Len(ch.calls) |->
        QuoteRow(ch.calls[j], "call", ch, ticker_symbol, current_stock_price)] \o
    [j \in 1..Len(ch.puts) |->
        QuoteRow(ch.puts[j], "put", ch, ticker_symbol, current_stock_price)]

\* lines 33-53: all_options_data, one frame per expiration date
all_options_data(ticker_symbol, ans) ==
    [e \in 1..Len(ans.chains) |-> options_df(ans.chains[e], ticker_symbol, ans.price)]

\* faulty variant: the except branch prints and falls through to the chains
fetch_options_data_NoReturn(ticker_symbol, ans) ==
    [ret |-> Concat(all_options_data(ticker_symbol, ans)),
     printed |-> IF ans.hasPrice THEN <<>>
                 ELSE <<Msg("Could not fetch current price. Skipping.", ticker_symbol, 0)>>,
     chainRequests |-> Len(ans.chains)]

\* the call: what it returns, what it prints, how many chains it requested
fetch_options_data(ticker_symbol, ans) ==
    IF ~ans.hasPrice
    THEN [ret |-> <<>>,
          printed |-> <<Msg("Could not fetch current price. Skipping.", ticker_symbol, 0)>>,
          chainRequests |-> 0]
    ELSE [ret |-> Concat(all_options_data(ticker_symbol, ans)),
          printed |-> <<>>,
          chainRequests |-> Len(ans.chains)]

-----------------------------------------------------------------------------
(* process_and_clean_data, lines 61-100.  A frame is a sequence of rows;   *)
(* after pd.concat(ignore_index=True) the index label of a row is its      *)
(* position, and filtering keeps the labels.                               *)
(***************************************************************************)

\* line 66
marketPrice(r) == FDiv(FAdd(r.bid, r.ask), Num(2, 1))

\* lines 69-70
daysToExpiration(r) == TimedeltaDays(to_datetime(r.expirationDate) - r.timestamp)

\* line 71
timeToExpiration(r) == FDiv(Num(daysToExpiration(r), 1), Num(DaysPerYear, 1))

\* faulty variant: a zero strike guarded, the ratio left missing
moneyness_Guarded(r) ==
    IF r.strike = Num(0, 1) THEN NaN ELSE FDiv(r.underlyingPrice, r.strike)

\* line 74
moneyness(r) == FDiv(r.underlyingPrice, r.strike)

\* lines 66-77: the row with its label and the derived columns
Derive(r, label) ==
    [index |-> label,
     ticker |-> r.ticker, expirationDate |-> r.expirationDate,
     timestamp |-> r.timestamp, bid |-> r.bid, ask |-> r.ask,
     daysToExpiration |-> daysToExpiration(r),
     underlyingPrice |-> r.underlyingPrice,
     strike |-> r.strike,
     optionType |-> r.optionType,
     moneyness |-> moneyness(r),
     timeToExpiration |-> timeToExpiration(r),
     impliedVolatility |-> r.impliedVolatility,
     riskFreeRate |-> RISK_FREE_RATE,
     marketPrice |-> marketPrice(r)]

\* faulty variant: >= 0 instead of > 0
Liquid_NonNegative(r) ==
    /\ r.bid.k \in {"num", "inf"} /\ r.bid.n >= 0
    /\ r.ask.k \in {"num", "inf"} /\ r.ask.n >= 0

\* faulty variant: the ask left out of the mask
Liquid_BidOnly(r) == GtZero(r.bid)

\* lines 79-80: the liquidity mask
Liquid(r) == GtZero(r.bid) /\ GtZero(r.ask)

\* lines 84-93
final_cols ==
    <<"underlyingPrice", "strike", "optionType", "moneyness",
      "timeToExpiration", "impliedVolatility", "riskFreeRate", "marketPrice">>

FinalColSet == {final_cols[j] : j \in 1..Len(final_cols)}

\* line 95: df[final_cols], the label kept
Project(r) == [c \in FinalColSet \cup {"index"} |-> r[c]]

\* faulty variant: dropna(subset=['marketPrice'])
NotNa_TargetOnly(r) == ~isna(r.marketPrice)

\* line 98: a row survives dropna when none of its columns is missing
NotNa(r) == \A c \in FinalColSet : ~isna(r[c])

\* the arithmetic of lines 66 and 74 raises TypeError on a text cell
ProcessRaises(df) ==
    \E j \in 1..Len(df) :
        ~IsNumeric(df[j].bid) \/ ~IsNumeric(df[j].ask)
            \/ ~IsNumeric(df[j].strike) \/ ~IsNumeric(df[j].underlyingPrice)

process_and_clean_data(df) ==
    LET derived == [j \in 1..Len(df) |-> Derive(df[j], j)]
        liquid == SelectSeq(derived, Liquid)
        processed_df == [j \in 1..Len(liquid) |-> Project(liquid[j])]
    IN  SelectSeq(processed_df, NotNa)

-----------------------------------------------------------------------------
(* OUTPUT_CSV and to_csv(index=False) *)

HeaderLine == [j \in 1..Len(final_cols) |-> Str(final_cols[j])]

\* one CSV record: the cells in column order, the index label left out
CsvLine(r) == [j \in 1..Len(final_cols) |-> r[final_cols[j]]]

CsvLines(df) == [j \in 1..Len(df) |-> CsvLine(df[j])]

NoFile == [exists |-> FALSE, lines |-> <<>>]

\* faulty variant: mode 'a' ignored, the file always rewritten
to_csv_Overwrite(f, df, mode, header) ==
    [exists |-> TRUE,
     lines |-> (IF header THEN <<HeaderLine>> ELSE <<>>) \o CsvLines(df)]

to_csv(f, df, mode, header) ==
    [exists |-> TRUE,
     lines |-> (IF mode = "a" THEN f.lines ELSE <<>>)
                 \o (IF header THEN <<HeaderLine>> ELSE <<>>)
                 \o CsvLines(df)]

\* line 124: os.path.exists(OUTPUT_CSV)
path_exists(f) == f.exists

\* faulty variant: header=True on the append as well
WriteDataset_HeaderAlways(f, df) ==
    IF f.exists THEN to_csv(f, df, "a", TRUE) ELSE to_csv(f, df, "w", TRUE)

\* lines 124-128: append without a header to an existing file, else create with one
WriteDataset(f, df) ==
    IF path_exists(f) THEN to_csv(f, df, "a", FALSE) ELSE to_csv(f, df, "w", TRUE)

DataLines(f) == IF f.lines = <<>> THEN 0 ELSE Len(f.lines) - 1

-----------------------------------------------------------------------------
(* __main__, lines 104-129 *)

NoFetch == [ticker |-> "", hasPrice |-> FALSE, chainRequests |-> 0, rows |-> 0]

RowsOf(frames) == Len(Concat(frames))

\* faulty variant: the new frame put in front of the list
LoopBody_Prepend(st, ticker, ans) ==
    LET call == fetch_options_data(ticker, ans)
        data == call.ret
    IN  [all_ticker_data |-> IF data # <<>> THEN <<data>> \o st.all_ticker_data
                             ELSE st.all_ticker_data,
         out |-> Append(st.out, Msg("Fetching data...", ticker, 0)) \o call.printed,
         fetchLog |-> Append(st.fetchLog, [ticker |-> ticker, ret |-> data]),
         lastFetch |-> [ticker |-> ticker, hasPrice |-> ans.hasPrice,
                        chainRequests |-> call.chainRequests, rows |-> Len(data)]]

\* lines 109-112: one iteration of the loop over TICKERS, on the loop's state
LoopBody(st, ticker, ans) ==
    LET call == fetch_options_data(ticker, ans)
        data == call.ret
    IN  [all_ticker_data |-> IF data # <<>> THEN Append(st.all_ticker_data, data)
                             ELSE st.all_ticker_data,
         out |-> Append(st.out, Msg("Fetching data...", ticker, 0)) \o call.printed,
         fetchLog |-> Append(st.fetchLog, [ticker |-> ticker, ret |-> data]),
         lastFetch |-> [ticker |-> ticker, hasPrice |-> ans.hasPrice,
                        chainRequests |-> call.chainRequests, rows |-> Len(data)]]

\* lines 105-107
StartRun ==
    /\ pc \in {"idle", "done", "error"}
    /\ pc' = "fetch"
    /\ i' = 1
    /\ all_ticker_data' = <<>>
    /\ raw_data_df' = <<>>
    /\ model_ready_df' = <<>>
    /\ out' = <<Msg("Starting options data collection...", "", 0)>>
    /\ fetchLog' = <<>>
    /\ lastFetch' = NoFetch
    /\ file0' = file
    /\ writes' = 0
    /\ UNCHANGED <<file, fresh, persisted>>

\* lines 108-112: the quote source answers
FetchTicker ==
    /\ pc = "fetch"
    /\ i <= Len(TICKERS)
    /\ \E ans \in Answers(MaxRows - DataLines(file) - RowsOf(all_ticker_data)) :
          LET st == LoopBody([all_ticker_data |-> all_ticker_data, out |-> out,
                              fetchLog |-> fetchLog, lastFetch |-> lastFetch],
                             TICKERS[i], ans)
          IN  /\ all_ticker_data' = st.all_ticker_data
              /\ out' = st.out
              /\ fetchLog' = st.fetchLog
              /\ lastFetch' = st.lastFetch
    /\ i' = i + 1
    /\ pc' = IF i = Len(TICKERS) THEN "loaded" ELSE "fetch"
    /\ UNCHANGED <<raw_data_df, model_ready_df, file, file0, writes, fresh, persisted>>

\* lines 108-110: the quote source raises something other than IndexError
\* (no network, a bad payload); nothing catches it
FetchError ==
    /\ pc = "fetch"
    /\ i <= Len(TICKERS)
    /\ out' = Append(out, Msg("Fetching data...", TICKERS[i], 0))
    /\ pc' = "error"
    /\ UNCHANGED <<i, all_ticker_data, raw_data_df, model_ready_df, file,
                   fetchLog, lastFetch, file0, writes, fresh, persisted>>

\* lines 114-115
NoData ==
    /\ pc = "loaded"
    /\ all_ticker_data = <<>>
    /\ out' = Append(out, Msg("No data collected. Exiting.", "", 0))
    /\ pc' = "done"
    /\ UNCHANGED <<i, all_ticker_data, raw_data_df, model_ready_df, file,
                   fetchLog, lastFetch, file0, writes, fresh, persisted>>

\* faulty variant: the else branch taken without the test of line 114
Process_NoEmptyCheck ==
    /\ pc = "loaded"
    /\ ~ProcessRaises(Concat(all_ticker_data))
    /\ raw_data_df' = Concat(all_ticker_data)
    /\ model_ready_df' = process_and_clean_data(Concat(all_ticker_data))
    /\ pc' = "processed"
    /\ UNCHANGED <<i, all_ticker_data, file, out,
                   fetchLog, lastFetch, file0, writes, fresh, persisted>>

\* lines 116-121
Process ==
    /\ pc = "loaded"
    /\ all_ticker_data # <<>>
    /\ ~ProcessRaises(Concat(all_ticker_data))
    /\ raw_data_df' = Concat(all_ticker_data)
    /\ model_ready_df' = process_and_clean_data(Concat(all_ticker_data))
    /\ pc' = "processed"
    /\ UNCHANGED <<i, all_ticker_data, file, out,
                   fetchLog, lastFetch, file0, writes, fresh, persisted>>

\* lines 116-121, process_and_clean_data raising
ProcessError ==
    /\ pc = "loaded"
    /\ all_ticker_data # <<>>
    /\ ProcessRaises(Concat(all_ticker_data))
    /\ raw_data_df' = Concat(all_ticker_data)
    /\ pc' = "error"
    /\ UNCHANGED <<i, all_ticker_data, model_ready_df, file, out,
                   fetchLog, lastFetch, file0, writes, fresh, persisted>>

\* lines 123-129
Persist ==
    /\ pc = "processed"
    /\ file' = WriteDataset(file, model_ready_df)
    /\ out' = Append(out, Msg(IF path_exists(file) THEN "Appended new records"
                                                    ELSE "Created file and saved records",
                              "", Len(model_ready_df)))
    /\ writes' = writes + 1
    /\ persisted' = persisted \o
            [j \in 1..Len(model_ready_df) |->
                [line |-> CsvLine(model_ready_df[j]),
                 bid |-> raw_data_df[model_ready_df[j].index].bid,
                 ask |-> raw_data_df[model_ready_df[j].index].ask]]
    /\ pc' = "done"
    /\ UNCHANGED <<i, all_ticker_data, raw_data_df, model_ready_df,
                   fetchLog, lastFetch, file0, fresh>>

\* lines 108-112: the whole loop, from ticker k on
RECURSIVE RunLoop(_, _, _)
RunLoop(st, k, answers) ==
    IF k > Len(TICKERS) THEN st
    ELSE RunLoop(LoopBody(st, TICKERS[k], answers[k]), k + 1, answers)

\* OUTPUT_CSV before the first run: absent, or left by an earlier run that wrote
\* one good put
EarlierSource ==
    QuoteRow(GoodContract, "put", [exp |-> 40, ts |-> 252], "AAPL", Num(105, 1))

EarlierRow ==
    [line |-> CsvLine(Project(Derive(EarlierSource, 1))),
     bid |-> EarlierSource.bid, ask |-> EarlierSource.ask]

InitialFiles ==
    {[file |-> NoFile, persisted |-> <<>>],
     [file |-> [exists |-> TRUE, lines |-> <<HeaderLine, EarlierRow.line>>],
      persisted |-> <<EarlierRow>>]}

Init ==
    /\ pc = "idle"
    /\ i = 1
    /\ all_ticker_data = <<>>
    /\ raw_data_df = <<>>
    /\ model_ready_df = <<>>
    /\ \E f \in InitialFiles : file = f.file /\ persisted = f.persisted
    /\ out = <<>>
    /\ fetchLog = <<>>
    /\ lastFetch = NoFetch
    /\ file0 = file
    /\ writes = 0
    /\ fresh = ~file.exists

Next ==
    \/ StartRun
    \/ FetchTicker
    \/ FetchError
    \/ NoData
    \/ Process
    \/ ProcessError
    \/ Persist

Spec == Init /\ [][Next]_vars

-----------------------------------------------------------------------------
(* process_and_clean_data on its own: a first run that has just left the   *)
(* loop, the first ticker having answered with some rows and the others    *)
(* having no price.                                                        *)
(***************************************************************************)

InitProc ==
    /\ pc = "loaded"
    /\ i = Len(TICKERS) + 1
    /\ \E ans \in RichAnswers(MaxLen) :
          LET st == RunLoop([all_ticker_data |-> <<>>,
                             out |-> <<Msg("Starting options data collection...", "", 0)>>,
                             fetchLog |-> <<>>, lastFetch |-> NoFetch],
                            1, [k \in 1..Len(TICKERS) |->
                                    IF k = 1 THEN ans ELSE NoPriceAnswer])
          IN  /\ st.all_ticker_data # <<>>
              /\ all_ticker_data = st.all_ticker_data
              /\ out = st.out
              /\ fetchLog = st.fetchLog
              /\ lastFetch = st.lastFetch
    /\ raw_data_df = <<>>
    /\ model_ready_df = <<>>
    /\ \E f \in InitialFiles : file = f.file /\ persisted = f.persisted
    /\ file0 = file
    /\ writes = 0
    /\ fresh = ~file.exists

NextProc ==
    \/ Process
    \/ Persist

SpecProc == InitProc /\ [][NextProc]_vars

-----------------------------------------------------------------------------
(* Properties *)

Positive(v) == v.k = "num" /\ v.n > 0
Missing(v) == v.k = "nan"

\* the run has left the loop
LoopDone == Len(fetchLog) = Len(TICKERS)

\* the quote row a returned row was derived from
SourceOf(o) == raw_data_df[o.index]

Returned == pc \in {"processed", "done"}

SkipMsg(t) == Msg("Could not fetch current price. Skipping.", t, 0)
Skipped == {t \in {TICKERS[k] : k \in 1..Len(TICKERS)} :
                \E m \in 1..Len(out) : out[m] = SkipMsg(t)}

IsPrefix(a, b) == Len(a) <= Len(b) /\ \A j \in 1..Len(a) : a[j] = b[j]

\* C1: every data record of the dataset file is a record some run handed to to_csv,
\* and the quote row it was derived from had bid > 0 and ask > 0;
\* process_and_clean_data returns no row whose quote had a zero, negative or
\* missing bid or ask.
C1_FilterInvariant ==
    /\ ~file.exists => persisted = <<>>
    /\ file.exists =>
        /\ Len(file.lines) = Len(persisted) + 1
        /\ \A j \in 1..Len(persisted) :
            /\ file.lines[j + 1] = persisted[j].line
            /\ Positive(persisted[j].bid)
            /\ Positive(persisted[j].ask)
    /\ Returned =>
        \A j \in 1..Len(model_ready_df) :
            /\ Positive(SourceOf(model_ready_df[j]).bid)
            /\ Positive(SourceOf(model_ready_df[j]).ask)

\* a run fetched a row with bid 0 and ask 1.50 next to a liquid one, and wrote only
\* the liquid one
C1_Witness ==
    /\ pc = "done"
    /\ writes = 1
    /\ Len(model_ready_df) = 1
    /\ \E j \in 1..Len(raw_data_df) :
        /\ raw_data_df[j].bid = Num(0, 1)
        /\ raw_data_df[j].ask = Num(3, 2)
        /\ model_ready_df[1].index # j

\* C2: when the dataset file did not exist before the first run, then once a run
\* with a non-empty aggregate has completed the file exists and is the header
\* followed by the records the completed runs returned, in run order; the header
\* occurs nowhere else.
C2_HeaderOnceThenRuns ==
    fresh =>
        /\ (pc = "done" /\ all_ticker_data # <<>>) => file.exists
        /\ ~file.exists => persisted = <<>>
        /\ file.exists =>
            /\ file.lines = <<HeaderLine>> \o [j \in 1..Len(persisted) |-> persisted[j].line]
            /\ \A j \in 2..Len(file.lines) : file.lines[j] # HeaderLine

\* two runs over the same upstream data: one header, the data record twice
C2_Witness ==
    /\ fresh
    /\ pc = "done"
    /\ Len(file0.lines) = 2
    /\ Len(file.lines) = 3
    /\ file.lines[1] = HeaderLine
    /\ file.lines[2] = file.lines[3]
    /\ file.lines[2] = CsvLine(model_ready_df[1])

\* C3: when every ticker of a run yields an empty Fetcher result, the run neither
\* processes nor fails: it prints "No data collected. Exiting.", ends normally and
\* leaves the dataset file as it was (not created, not modified).
C3_NoDataLeavesFile ==
    (LoopDone /\ \A k \in 1..Len(fetchLog) : fetchLog[k].ret = <<>>) =>
        /\ pc \in {"loaded", "done"}
        /\ file = file0
        /\ writes = 0
        /\ pc = "done" => out[Len(out)] = Msg("No data collected. Exiting.", "", 0)

\* a first run over six empty tickers, some of them skipped, has ended and there is
\* still no file
C3_Witness ==
    /\ pc = "done"
    /\ LoopDone
    /\ Skipped # {}
    /\ all_ticker_data = <<>>
    /\ out[Len(out)].msg = "No data collected. Exiting."
    /\ ~file.exists

\* C4: a Fetcher call for a ticker without a current price requests no option
\* chain, prints the skip message, returns an empty frame and raises nothing: the
\* loop goes on with the next ticker; a skipped ticker has no row in the aggregate.
C4_NoPriceSkip ==
    /\ (pc \in {"fetch", "loaded"} /\ lastFetch.ticker # "" /\ ~lastFetch.hasPrice) =>
        /\ lastFetch.chainRequests = 0
        /\ lastFetch.rows = 0
        /\ out[Len(out)] = SkipMsg(lastFetch.ticker)
        /\ fetchLog[Len(fetchLog)] = [ticker |-> lastFetch.ticker, ret |-> <<>>]
        /\ i = Position(lastFetch.ticker) + 1
        /\ pc = "loaded" <=> lastFetch.ticker = TICKERS[Len(TICKERS)]
    /\ \A t \in Skipped :
        \A f \in 1..Len(all_ticker_data) :
            \A j \in 1..Len(all_ticker_data[f]) : all_ticker_data[f][j].ticker # t

\* a ticker was skipped and a later ticker of the same run contributed rows
C4_Witness ==
    /\ pc = "loaded"
    /\ \E k \in 1..Len(fetchLog) : \E m \in 1..Len(fetchLog) :
        /\ k < m
        /\ fetchLog[k].ticker \in Skipped
        /\ fetchLog[m].ret # <<>>

HasZeroStrike == \E j \in 1..Len(raw_data_df) : raw_data_df[j].strike = Num(0, 1)

\* C5 as claimed: a quote row with strike zero ends the run in an error during
\* feature derivation, so that the run returns no frame and writes nothing.
C5_ZeroStrikeAborts ==
    (\E j \in 1..Len(Concat(all_ticker_data)) :
        Concat(all_ticker_data)[j].strike = Num(0, 1)) =>
            /\ pc \in {"loaded", "error"}
            /\ file = file0

\* C5 as the code has it: a strike of zero raises nothing; the float division gives
\* +inf for a positive underlying price and NaN for a zero or missing one.  A
\* zero-strike row with a positive price that passes the bid/ask filter and has an
\* implied volatility is returned with moneyness +inf and written to the file; with a
\* zero or missing price it is dropped as a row with a missing value.
C5_ZeroStrikeIsInfinite ==
    /\ (pc = "loaded" /\ \E j \in 1..Len(Concat(all_ticker_data)) :
            Concat(all_ticker_data)[j].strike = Num(0, 1))
        => ~ProcessRaises(Concat(all_ticker_data))
    /\ Returned =>
        \A j \in 1..Len(raw_data_df) :
            LET r == raw_data_df[j]
                outs == {m \in 1..Len(model_ready_df) : model_ready_df[m].index = j}
            IN  r.strike = Num(0, 1) =>
                    IF Positive(r.underlyingPrice) /\ Positive(r.bid) /\ Positive(r.ask)
                            /\ ~Missing(r.impliedVolatility)
                    THEN /\ Cardinality(outs) = 1
                         /\ \A m \in outs :
                                /\ model_ready_df[m].moneyness = Inf(1)
                                /\ pc = "done" =>
                                    \E l \in 1..Len(file.lines) :
                                        /\ file.lines[l] = CsvLine(model_ready_df[m])
                                        /\ file.lines[l][4] = Inf(1)
                    ELSE outs = {}

\* a run with a zero-strike row has ended normally and wrote it, moneyness +inf
C5_Witness ==
    /\ pc = "done"
    /\ HasZeroStrike
    /\ Len(file.lines) > Len(file0.lines)
    /\ file.lines[Len(file.lines)][4] = Inf(1)
    /\ file.lines[Len(file.lines)][2] = Num(0, 1)

\* C6: the Fetcher is called once per ticker, in the order of TICKERS; the list of
\* frames is the non-empty results in call order and the raw frame is their
\* concatenation; a ticker with a price and no expiration date returns an empty
\* frame, is left out and raises nothing.
C6_FetchOrder ==
    /\ Len(fetchLog) <= Len(TICKERS)
    /\ \A k \in 1..Len(fetchLog) : fetchLog[k].ticker = TICKERS[k]
    /\ pc \in {"fetch", "loaded", "processed", "done"} => Len(fetchLog) = i - 1
    /\ pc \in {"loaded", "processed", "done"} => LoopDone
    /\ LET nonEmpty == {k \in 1..Len(fetchLog) : fetchLog[k].ret # <<>>}
       IN  /\ Len(all_ticker_data) = Cardinality(nonEmpty)
           /\ \A f \in 1..Len(all_ticker_data) :
                \E k \in nonEmpty :
                    /\ all_ticker_data[f] = fetchLog[k].ret
                    /\ Cardinality({m \in nonEmpty : m < k}) = f - 1
    /\ pc \in {"processed", "done"} =>
        raw_data_df = Concat([k \in 1..Len(fetchLog) |-> fetchLog[k].ret])
    /\ (pc \in {"fetch", "loaded"} /\ lastFetch.hasPrice /\ lastFetch.chainRequests = 0) =>
        /\ fetchLog[Len(fetchLog)].ret = <<>>
        /\ \A f \in 1..Len(all_ticker_data) :
            \A j \in 1..Len(all_ticker_data[f]) :
                all_ticker_data[f][j].ticker # lastFetch.ticker

\* a ticker with a price and no expiration dates between two tickers with rows
C6_Witness ==
    /\ pc = "processed"
    /\ Len(all_ticker_data) = 2
    /\ \E k \in 2..Len(fetchLog) - 1 :
        /\ fetchLog[k - 1].ret # <<>>
        /\ fetchLog[k].ret = <<>>
        /\ fetchLog[k].ticker \notin Skipped
        /\ fetchLog[k + 1].ret # <<>>

\* what makes one of the eight projected columns of a quote row's features missing
HasMissingColumn(r) ==
    \/ Missing(r.underlyingPrice)
    \/ Missing(r.strike)
    \/ Missing(r.impliedVolatility)
    \/ Missing(r.bid)
    \/ Missing(r.ask)
    \/ (r.underlyingPrice = Num(0, 1) /\ r.strike = Num(0, 1))

\* C7: no returned row and no record of the file has a missing value in any of the
\* eight columns; a quote row with a missing value in one of them is not returned.
C7_NoMissingValues ==
    /\ Returned =>
        /\ \A m \in 1..Len(model_ready_df) :
            \A c \in 1..Len(final_cols) : ~Missing(model_ready_df[m][final_cols[c]])
        /\ \A j \in 1..Len(raw_data_df) :
            HasMissingColumn(raw_data_df[j]) =>
                \A m \in 1..Len(model_ready_df) : model_ready_df[m].index # j
    /\ \A l \in 1..Len(file.lines) :
        /\ Len(file.lines[l]) = Len(final_cols)
        /\ \A c \in 1..Len(final_cols) : ~Missing(file.lines[l][c])

\* a liquid row without implied volatility was dropped and another row written
C7_Witness ==
    /\ pc = "done"
    /\ Len(model_ready_df) = 1
    /\ \E j \in 1..Len(raw_data_df) :
        /\ Missing(raw_data_df[j].impliedVolatility)
        /\ Positive(raw_data_df[j].bid)
        /\ Positive(raw_data_df[j].ask)
        /\ Positive(raw_data_df[j].strike)
        /\ Positive(raw_data_df[j].underlyingPrice)

\* the hours from the fetch timestamp to midnight of the expiration date
HoursToExpiration(r) == r.expirationDate * HoursPerDay - r.timestamp

\* C8: timeToExpiration is d / 365 for the integer d with
\* d days <= expirationDate - timestamp < d + 1 days; d is negative when the
\* expiration lies before the timestamp, and such a row is returned and written like
\* any other row that passes the bid/ask and missing-value filters.
C8_TimeToExpiration ==
    Returned =>
        /\ \A m \in 1..Len(model_ready_df) :
            LET o == model_ready_df[m]
                h == HoursToExpiration(SourceOf(o))
            IN  /\ o.timeToExpiration.k = "num"
                /\ \E d \in -40..40 :
                    /\ d * HoursPerDay <= h
                    /\ h < (d + 1) * HoursPerDay
                    /\ o.timeToExpiration.n * DaysPerYear = d * o.timeToExpiration.d
                /\ h < 0 => o.timeToExpiration.n < 0
        /\ \A j \in 1..Len(raw_data_df) :
            LET r == raw_data_df[j]
            IN  (HoursToExpiration(r) < 0 /\ Positive(r.bid) /\ Positive(r.ask)
                    /\ ~HasMissingColumn(r)) =>
                        \E m \in 1..Len(model_ready_df) :
                            /\ model_ready_df[m].index = j
                            /\ pc = "done" =>
                                \E l \in 1..Len(file.lines) :
                                    file.lines[l] = CsvLine(model_ready_df[m])

\* a row fetched at noon of day 10 for a date that expired on day 9 (36 hours before)
\* was written with timeToExpiration -2/365
C8_Witness ==
    /\ pc = "done"
    /\ \E m \in 1..Len(model_ready_df) :
        /\ HoursToExpiration(SourceOf(model_ready_df[m])) = -36
        /\ model_ready_df[m].timeToExpiration = Num(-2, 365)
        /\ file.lines[Len(file.lines) - Len(model_ready_df) + m][5] = Num(-2, 365)

\* C9: the returned frame is the input restricted to the rows with bid > 0, ask > 0
\* and no missing value in the eight columns: each such row once, no other row, in
\* input order, with the input's cells.
C9_OrderPreservingFilter ==
    Returned =>
        /\ \A m \in 1..Len(model_ready_df) :
            LET o == model_ready_df[m]
            IN  /\ o.index \in 1..Len(raw_data_df)
                /\ m > 1 => model_ready_df[m - 1].index < o.index
                /\ o.underlyingPrice = SourceOf(o).underlyingPrice
                /\ o.strike = SourceOf(o).strike
                /\ o.optionType = SourceOf(o).optionType
                /\ o.impliedVolatility = SourceOf(o).impliedVolatility
        /\ \A j \in 1..Len(raw_data_df) :
            LET r == raw_data_df[j]
            IN  (\E m \in 1..Len(model_ready_df) : model_ready_df[m].index = j)
                    <=> (Positive(r.bid) /\ Positive(r.ask) /\ ~HasMissingColumn(r))

\* both rows of a frame survive, the put of the first chain before the call of the
\* second
C9_Witness ==
    /\ pc = "processed"
    /\ Len(raw_data_df) >= 2
    /\ Len(model_ready_df) = 2
    /\ model_ready_df[1].index = 1
    /\ model_ready_df[2].index = Len(raw_data_df)
    /\ model_ready_df[1].optionType = Str("put")
    /\ model_ready_df[2].optionType = Str("call")

\* C10: a run writes the file at most once, after the Fetcher has returned for every
\* ticker and process_and_clean_data has returned; until then, and in a run that ends
\* in an error, the file is as the run found it; a write keeps the old content as a
\* prefix of the new.
C10_SingleWriteAtEnd ==
    /\ writes <= 1
    /\ writes = 1 =>
        /\ pc = "done"
        /\ LoopDone
        /\ raw_data_df = Concat(all_ticker_data)
        /\ file.lines = file0.lines \o CsvLines(model_ready_df)
                \/ (~file0.exists /\ file.lines = <<HeaderLine>> \o CsvLines(model_ready_df))
    /\ pc \in {"idle", "fetch", "loaded", "processed", "error"} => file = file0
    /\ writes = 0 => file = file0
    /\ IsPrefix(file0.lines, file.lines)
    /\ file0.exists => file.exists

\* a run on an existing file failed in process_and_clean_data
C10_Witness ==
    /\ pc = "error"
    /\ LoopDone
    /\ raw_data_df # <<>>
    /\ file0.exists
    /\ file = file0

====
